---- MODULE Spec2Model ----
(***************************************************************************)
(* lcdb_test_data/build.py: main() and the Builder class.                  *)
(*                                                                         *)
(* One invocation of main() is a process: it constructs a Builder for the  *)
(* target directory, builds (or reuses) the conda environment keyed by the *)
(* md5 of the bundled requirements.txt, writes the Snakefile and runs      *)
(* snakemake.  Several invocations share one file system, so every file    *)
(* system call and every child process is a step of its own.               *)
(*                                                                         *)
(* Paths are sequences of components, byte strings are sequences of        *)
(* 0..255, text is TLA+ strings (sequences of characters).                 *)
(***************************************************************************)
EXTENDS Integers, Sequences, FiniteSets, TLC

----------------------------------------------------------------------------
(* Bounds of the model *)

\* invocations of main() started in a behaviour, over all process slots
MaxRuns == 3
\* child processes exit with a status in 0..MaxExit
MaxExit == 2
\* passthrough arguments on the command line: at most MaxArgs tokens
MaxArgs == 2

\* the process slots: at most two invocations of main() run at the same time
Procs == {"p1", "p2"}

\* the data_dir argument of the command line
DataDir == <<"data">>

\* requirements.txt as bundled with three releases of the package;
\* M1 and M2 differ and share the first six hex digits of their md5 (04c18d)
\* "packageA\npackageB\n"
M0 == <<112, 97, 99, 107, 97, 103, 101, 65, 10, 112, 97, 99, 107, 97, 103, 101, 66, 10>>
\* "packageA\npackageB=2583\n"
M1 == <<112, 97, 99, 107, 97, 103, 101, 65, 10, 112, 97, 99, 107, 97, 103, 101, 66, 61, 50, 53, 56, 51, 10>>
\* "packageA\npackageB=5331\n"
M2 == <<112, 97, 99, 107, 97, 103, 101, 65, 10, 112, 97, 99, 107, 97, 103, 101, 66, 61, 53, 51, 51, 49, 10>>
Manifests == {M0, M1, M2}

\* the bundled Snakefile: "rule all:\n"
SnakefileBytes == <<114, 117, 108, 101, 32, 97, 108, 108, 58, 10>>

\* tokens that parse_known_args leaves in `extra`
Tokens == {"-n", "-j4", "a b"}

----------------------------------------------------------------------------
(* hashlib.md5 on messages of at most 55 bytes (one block).  A 32-bit word *)
(* is <<high 16 bits, low 16 bits>>.                                       *)

TwoTo16 == 65536

RECURSIVE Pow2(_)
Pow2(n) == IF n = 0 THEN 1 ELSE 2 * Pow2(n - 1)

\* per-operation left-rotation amounts
md5_s ==
   <<
      7, 12, 17, 22, 7, 12, 17, 22, 7, 12, 17, 22, 7, 12, 17, 22,
      5, 9, 14, 20, 5, 9, 14, 20, 5, 9, 14, 20, 5, 9, 14, 20,
      4, 11, 16, 23, 4, 11, 16, 23, 4, 11, 16, 23, 4, 11, 16, 23,
      6, 10, 15, 21, 6, 10, 15, 21, 6, 10, 15, 21, 6, 10, 15, 21
   >>

\* floor(2^32 * abs(sin(i + 1))), i = 0..63
md5_K ==
   <<
      <<55146, 42104>>, <<59591, 46934>>, <<9248, 28891>>, <<49597, 52974>>,
      <<62844, 4015>>, <<18311, 50730>>, <<43056, 17939>>, <<64838, 38145>>,
      <<27008, 39128>>, <<35652, 63407>>, <<65535, 23473>>, <<35164, 55230>>,
      <<27536, 4386>>, <<64920, 29075>>, <<42617, 17294>>, <<18868, 2081>>,
      <<63006, 9570>>, <<49216, 45888>>, <<9822, 23121>>, <<59830, 51114>>,
      <<54831, 4189>>, <<580, 5203>>, <<55457, 59009>>, <<59347, 64456>>,
      <<8673, 52710>>, <<49975, 2006>>, <<62677, 3463>>, <<17754, 5357>>,
      <<43491, 59653>>, <<64751, 41976>>, <<26479, 729>>, <<36138, 19594>>,
      <<65530, 14658>>, <<34673, 63105>>, <<28061, 24866>>, <<64997, 14348>>,
      <<42174, 59972>>, <<19422, 53161>>, <<63163, 19296>>, <<48831, 48240>>,
      <<10395, 32454>>, <<60065, 10234>>, <<54511, 12421>>, <<1160, 7429>>,
      <<55764, 53305>>, <<59099, 39397>>, <<8098, 31992>>, <<50348, 22117>>,
      <<62505, 8772>>, <<17194, 65431>>, <<43924, 9127>>, <<64659, 41017>>,
      <<25947, 22979>>, <<36620, 52370>>, <<65519, 62589>>, <<34180, 24017>>,
      <<28584, 32335>>, <<65068, 59104>>, <<41729, 17172>>, <<19976, 4513>>,
      <<63315, 32386>>, <<48442, 62005>>, <<10967, 53947>>, <<60294, 54161>>
   >>

\* the initial state A, B, C, D
md5_init == <<<<26437, 8961>>, <<61389, 43913>>, <<39098, 56574>>, <<4146, 21622>>>>

Add32(u, v) ==
   LET lo == u[2] + v[2]
       hi == u[1] + v[1] + (lo \div TwoTo16)
   IN  <<hi % TwoTo16, lo % TwoTo16>>

\* rotate left by s, 0 <= s < 16
RotL16(u, s) ==
   <<((u[1] * Pow2(s)) % TwoTo16) + (u[2] \div Pow2(16 - s)),
     ((u[2] * Pow2(s)) % TwoTo16) + (u[1] \div Pow2(16 - s))>>

RotL32(u, s) == IF s >= 16 THEN RotL16(<<u[2], u[1]>>, s - 16) ELSE RotL16(u, s)

\* one bit of F, G, H, I (operations 0-15, 16-31, 32-47, 48-63)
BitMix(i, b, c, d) ==
   CASE i < 16 -> IF b = 1 THEN c ELSE d
     [] i < 32 -> IF d = 1 THEN b ELSE c
     [] i < 48 -> (b + c + d) % 2
     [] OTHER  -> (c + (IF b = 1 \/ d = 0 THEN 1 ELSE 0)) % 2

RECURSIVE Mix16(_, _, _, _, _)
Mix16(i, b, c, d, n) ==
   IF n = 0 THEN 0
   ELSE BitMix(i, b % 2, c % 2, d % 2)
        + 2 * Mix16(i, b \div 2, c \div 2, d \div 2, n - 1)

Mix32(i, b, c, d) ==
   <<Mix16(i, b[1], c[1], d[1], 16), Mix16(i, b[2], c[2], d[2], 16)>>

MsgIndex(i) ==
   CASE i < 16 -> i
     [] i < 32 -> (5 * i + 1) % 16
     [] i < 48 -> (3 * i + 5) % 16
     [] OTHER  -> (7 * i) % 16

\* the padded block: the message, 0x80, zeros, the length in bits (little endian)
Pad(bytes) ==
   [j \in 1..64 |->
      IF j <= Len(bytes) THEN bytes[j]
      ELSE IF j = Len(bytes) + 1 THEN 128
      ELSE IF j = 57 THEN (8 * Len(bytes)) % 256
      ELSE IF j = 58 THEN (8 * Len(bytes)) \div 256
      ELSE 0]

\* little-endian word g of the block
Word(blk, g) ==
   <<blk[4 * g + 3] + 256 * blk[4 * g + 4], blk[4 * g + 1] + 256 * blk[4 * g + 2]>>

Step(st, blk, i) ==
   LET f == Add32(Add32(Add32(Mix32(i, st[2], st[3], st[4]), st[1]), md5_K[i + 1]),
                  Word(blk, MsgIndex(i)))
   IN  <<st[4], Add32(st[2], RotL32(f, md5_s[i + 1])), st[2], st[3]>>

\* operations i..63 applied to st.  Len(st) is read first so that each
\* operation's state is computed before the next one starts.
RECURSIVE Rounds(_, _, _)
Rounds(st, blk, i) ==
   IF i = 64 \/ Len(st) # 4 THEN st ELSE Rounds(Step(st, blk, i), blk, i + 1)

Md5(bytes) ==
   LET r == Rounds(md5_init, Pad(bytes), 0)
   IN  [k \in 1..4 |-> Add32(md5_init[k], r[k])]

HexChars == "0123456789abcdef"

HexByte(n) ==
   SubSeq(HexChars, (n \div 16) + 1, (n \div 16) + 1)
      \o SubSeq(HexChars, (n % 16) + 1, (n % 16) + 1)

\* md5hash.hexdigest()[:6]: the first three bytes of the digest, which are
\* the three low bytes of A
HexDigest6(bytes) ==
   LET a == Md5(bytes)[1]
   IN  HexByte(a[2] % 256) \o HexByte(a[2] \div 256) \o HexByte(a[1] % 256)

----------------------------------------------------------------------------
(* os.path on component sequences *)

\* os.path.join(base, *more)
PathJoin(base, more) == base \o more

RECURSIVE CommonLen(_, _)
CommonLen(a, b) ==
   IF a = <<>> \/ b = <<>> \/ Head(a) # Head(b) THEN 0
   ELSE 1 + CommonLen(Tail(a), Tail(b))

\* os.path.relpath(path, start)
RelPath(path, start) ==
   LET c    == CommonLen(path, start)
       ups  == [k \in 1..(Len(start) - c) |-> ".."]
       rest == SubSeq(path, c + 1, Len(path))
   IN  IF ups \o rest = <<>> THEN <<".">> ELSE ups \o rest

\* sep.join(parts)
RECURSIVE StrJoin(_, _)
StrJoin(sep, parts) ==
   IF parts = <<>> THEN ""
   ELSE IF Len(parts) = 1 THEN parts[1]
   ELSE parts[1] \o sep \o StrJoin(sep, Tail(parts))

\* a path as the text the shell sees
PathStr(path) == StrJoin("/", path)

----------------------------------------------------------------------------
(* State *)

VARIABLES
   dirs,         \* file system: the directories that exist
   files,        \* file system: path -> bytes of the regular files that exist
   createCount,  \* environment path -> conda create commands started for it
   builtFor,     \* environment path -> manifest of the invocation whose conda create
                 \* for it exited with 0
   pc,           \* where each invocation of main() is
   runs,         \* invocations of main() started so far
   manifest,     \* resource_string('lcdb_test_data', 'requirements.txt')
   extra,        \* main: extra (the passthrough tokens)
   env_path,     \* Builder.env_path (<<>> is None)
   loc_env,      \* build_environment: the local env_path
   retcode,      \* the last p.wait()
   popen,        \* the last sp.Popen(...) of the invocation
   err,          \* the exception that ended the invocation
   exit_status,  \* the exit status of the invocation (-1 while it runs)
   log,          \* the logger's records of the invocation
   calls         \* the calls main() has made, in order

vars == <<dirs, files, createCount, builtFor, pc, runs, manifest, extra, env_path,
          loc_env, retcode, popen, err, exit_status, log, calls>>

None == <<>>

NoPopen == [args |-> <<>>, cwd |-> <<>>, shell |-> FALSE]

NoErr == [kind |-> "none", returncode |-> 0, cmd |-> <<>>]

Running == {"init", "makedirs_data", "build_env", "check_marker", "makedirs_env",
            "create_popen", "create_wait", "write_marker", "write_snakefile",
            "run_popen", "run_wait"}

Ended == {"done", "failed", "killed"}

\* os.path.exists
Exists(path) == path \in dirs \/ path \in DOMAIN files

\* open(path, 'w').write(bytes)
WriteFile(path, bytes) ==
   [q \in DOMAIN files \cup {path} |-> IF q = path THEN bytes ELSE files[q]]

\* variant: os.makedirs(path, exist_ok=True) never minds a directory
MakedirsRaisesNever(path) == FALSE

\* variant: only a regular file in the way makes makedirs raise
MakedirsExistOk(path) == path \in DOMAIN files

\* os.makedirs(path) raises FileExistsError when the leaf exists
MakedirsRaises(path) == Exists(path)

\* os.makedirs(path): the leaf and every missing ancestor
Makedirs(path) == dirs \cup {SubSeq(path, 1, k) : k \in 1..Len(path)}

\* lines 53-55 and 61: md5hash.hexdigest()[:6] of each bundled manifest
digests == [m \in Manifests |-> HexDigest6(m)]

\* variant: one environment directory whatever the manifest
EnvPathNoDigest(data_dir, contents) == PathJoin(data_dir, <<".conda-env", "env">>)

\* line 61: the environment directory of a manifest
EnvPath(data_dir, contents) ==
   PathJoin(data_dir, <<".conda-env", digests[contents]>>)

MarkerPath(env) == PathJoin(env, <<".success">>)

\* variant: the marker is never looked at
NeedsBuildAlways(env) == TRUE

\* variant: the directory is tested instead of the marker in it
NeedsBuildDirMissing(env) == ~Exists(env)

\* line 63: build unless the marker is there
NeedsBuild(env) == ~Exists(MarkerPath(env))

\* line 66: the conda command
CreateCmd(rel_env) ==
   <<"conda", "create", "-y", "--file", "requirements.txt",
     "--prefix", PathStr(rel_env), "python=3">>

\* variant: ''.join(additional_args)
JoinArgsConcat(additional_args) == StrJoin("", additional_args)

\* line 101: ' '.join(additional_args)
JoinArgs(additional_args) == StrJoin(" ", additional_args)

\* lines 102-105: the shell command of run_snakefile
RunCmd(env, data_dir, additional_args) ==
   "source activate " \o PathStr(RelPath(env, data_dir))
      \o "; snakemake " \o JoinArgs(additional_args)

\* variant: `if retcode == 1:`
IsFailureOne(rc) == rc = 1

\* variant: the exit status is not tested
IsFailureNever(rc) == FALSE

\* lines 73 and 119: `if retcode:`
IsFailure(rc) == rc # 0

\* lines 74 and 120: logger.error("CMDS: %s", cmd)
ErrorRecord(cmd, rc) == [level |-> "ERROR", msg |-> "CMDS: %s", args |-> [cmd |-> cmd]]

\* variant: the error is raised without a log record
LogErrorDropped(records, cmd, rc) == records

LogError(records, cmd, rc) == Append(records, ErrorRecord(cmd, rc))

\* logger.info(msg, path)
InfoRecord(msg, path) == [level |-> "INFO", msg |-> msg, args |-> [path |-> path]]

\* variant: the Snakefile is written after the runner has run
MainNextSwapped(call) ==
   CASE call = "Builder"           -> "build_env"
     [] call = "build_environment" -> "run_popen"
     [] call = "run_snakefile"     -> "write_snakefile"
     [] call = "write_snakefile"   -> "done"

\* main, lines 30-33: where main() goes when a call returns
MainNext(call) ==
   CASE call = "Builder"           -> "build_env"
     [] call = "build_environment" -> "write_snakefile"
     [] call = "write_snakefile"   -> "run_popen"
     [] call = "run_snakefile"     -> "done"

\* sp.CalledProcessError(retcode, cmd)
CalledProcessError(rc, cmd) ==
   [kind |-> "CalledProcessError", returncode |-> rc, cmd |-> cmd]

FileExistsError == [kind |-> "FileExistsError", returncode |-> 0, cmd |-> <<>>]

KeyboardInterrupt == [kind |-> "KeyboardInterrupt", returncode |-> 0, cmd |-> <<>>]

\* every sequence of at most n tokens
RECURSIVE ArgLists(_)
ArgLists(n) ==
   IF n = 0 THEN {<<>>}
   ELSE LET shorter == ArgLists(n - 1)
        IN  shorter \cup {Append(a, t) : a \in {s \in shorter : Len(s) = n - 1}, t \in Tokens}

\* the command lines of the concurrent specification
ArgChoices == {<<"-n", "-j4">>}

Count(env) == IF env \in DOMAIN createCount THEN createCount[env] ELSE 0

----------------------------------------------------------------------------
(* An exception that nothing catches ends the invocation: the interpreter  *)
(* prints the traceback and exits with status 1.                           *)

Raise(p, e) ==
   /\ pc' = [pc EXCEPT ![p] = "failed"]
   /\ err' = [err EXCEPT ![p] = e]
   /\ exit_status' = [exit_status EXCEPT ![p] = 1]

Goto(p, label) ==
   /\ pc' = [pc EXCEPT ![p] = label]
   /\ UNCHANGED <<err, exit_status>>

\* a call of main() returns; after the last one the interpreter exits with 0
Return(p, call) ==
   /\ pc' = [pc EXCEPT ![p] = MainNext(call)]
   /\ exit_status' = [exit_status EXCEPT ![p] = IF MainNext(call) = "done" THEN 0 ELSE @]
   /\ err' = err

----------------------------------------------------------------------------
Init ==
   /\ dirs \in {{}, {DataDir}}
   /\ files = <<>>
   /\ createCount = <<>>
   /\ builtFor = <<>>
   /\ pc = [p \in Procs |-> "idle"]
   /\ runs = 0
   /\ manifest = [p \in Procs |-> <<>>]
   /\ extra = [p \in Procs |-> <<>>]
   /\ env_path = [p \in Procs |-> None]
   /\ loc_env = [p \in Procs |-> None]
   /\ retcode = [p \in Procs |-> 0]
   /\ popen = [p \in Procs |-> NoPopen]
   /\ err = [p \in Procs |-> NoErr]
   /\ exit_status = [p \in Procs |-> -1]
   /\ log = [p \in Procs |-> <<>>]
   /\ calls = [p \in Procs |-> <<>>]

\* lines 26-28: a new invocation of main(): the installed release decides the
\* bundled manifest, the command line decides the passthrough tokens
Start(p, m, args) ==
   /\ pc[p] \in {"idle"} \cup Ended
   /\ runs < MaxRuns
   /\ runs' = runs + 1
   /\ manifest' = [manifest EXCEPT ![p] = m]
   /\ extra' = [extra EXCEPT ![p] = args]
   /\ pc' = [pc EXCEPT ![p] = "init"]
   /\ env_path' = [env_path EXCEPT ![p] = None]
   /\ loc_env' = [loc_env EXCEPT ![p] = None]
   /\ retcode' = [retcode EXCEPT ![p] = 0]
   /\ popen' = [popen EXCEPT ![p] = NoPopen]
   /\ err' = [err EXCEPT ![p] = NoErr]
   /\ exit_status' = [exit_status EXCEPT ![p] = -1]
   /\ log' = [log EXCEPT ![p] = <<>>]
   /\ calls' = [calls EXCEPT ![p] = <<>>]
   /\ UNCHANGED <<dirs, files, createCount, builtFor>>

\* lines 30, 37-41: Builder(args.data_dir) up to the existence test
BuilderInit(p) ==
   /\ pc[p] = "init"
   /\ calls' = [calls EXCEPT ![p] = Append(@, "Builder")]
   /\ IF ~Exists(DataDir)
      THEN /\ log' = [log EXCEPT ![p] = Append(@, InfoRecord("Creating %s", DataDir))]
           /\ Goto(p, "makedirs_data")
      ELSE /\ log' = log
           /\ Return(p, "Builder")
   /\ UNCHANGED <<dirs, files, createCount, builtFor, runs, manifest, extra, env_path,
                  loc_env, retcode, popen>>

\* line 42: os.makedirs(self.data_dir)
MakedirsData(p) ==
   /\ pc[p] = "makedirs_data"
   /\ IF MakedirsRaises(DataDir)
      THEN /\ Raise(p, FileExistsError)
           /\ dirs' = dirs
      ELSE /\ dirs' = Makedirs(DataDir)
           /\ Return(p, "Builder")
   /\ UNCHANGED <<files, createCount, builtFor, runs, manifest, extra, env_path,
                  loc_env, retcode, popen, log, calls>>

\* lines 31, 53-62: the manifest is written into the data dir, and the
\* environment path is derived from its md5
WriteRequirements(p) ==
   /\ pc[p] = "build_env"
   /\ calls' = [calls EXCEPT ![p] = Append(@, "build_environment")]
   /\ files' = WriteFile(PathJoin(DataDir, <<"requirements.txt">>), manifest[p])
   /\ loc_env' = [loc_env EXCEPT ![p] = EnvPath(DataDir, manifest[p])]
   /\ Goto(p, "check_marker")
   /\ UNCHANGED <<dirs, createCount, builtFor, runs, manifest, extra, env_path,
                  retcode, popen, log>>

\* lines 63-64 and 81-83: the marker test; with the marker the environment is
\* reused and build_environment returns
CheckMarker(p) ==
   /\ pc[p] = "check_marker"
   /\ IF NeedsBuild(loc_env[p])
      THEN /\ log' = [log EXCEPT ![p] =
                         Append(@, InfoRecord("Building environment in %s", loc_env[p]))]
           /\ env_path' = env_path
           /\ Goto(p, "makedirs_env")
      ELSE /\ log' = [log EXCEPT ![p] =
                         Append(@, InfoRecord("Using existing environment %s", loc_env[p]))]
           /\ env_path' = [env_path EXCEPT ![p] = loc_env[p]]
           /\ Return(p, "build_environment")
   /\ UNCHANGED <<dirs, files, createCount, builtFor, runs, manifest, extra,
                  loc_env, retcode, popen, calls>>

\* line 65: os.makedirs(env_path)
MakedirsEnv(p) ==
   /\ pc[p] = "makedirs_env"
   /\ IF MakedirsRaises(loc_env[p])
      THEN /\ Raise(p, FileExistsError)
           /\ dirs' = dirs
      ELSE /\ dirs' = Makedirs(loc_env[p])
           /\ Goto(p, "create_popen")
   /\ UNCHANGED <<files, createCount, builtFor, runs, manifest, extra, env_path,
                  loc_env, retcode, popen, log, calls>>

\* lines 66-69: conda create is started in the data dir
CreatePopen(p) ==
   /\ pc[p] = "create_popen"
   /\ popen' = [popen EXCEPT ![p] =
                   [args |-> CreateCmd(RelPath(loc_env[p], DataDir)),
                    cwd |-> DataDir, shell |-> FALSE]]
   /\ createCount' =
         [e \in DOMAIN createCount \cup {loc_env[p]} |->
             IF e = loc_env[p] THEN Count(e) + 1 ELSE createCount[e]]
   /\ Goto(p, "create_wait")
   /\ UNCHANGED <<dirs, files, builtFor, runs, manifest, extra, env_path,
                  loc_env, retcode, log, calls>>

\* lines 70-76: conda create exits with status rc
CreateWait(p, rc) ==
   /\ pc[p] = "create_wait"
   /\ retcode' = [retcode EXCEPT ![p] = rc]
   /\ builtFor' =
         IF rc = 0
         THEN [e \in DOMAIN builtFor \cup {loc_env[p]} |->
                  IF e = loc_env[p] THEN manifest[p] ELSE builtFor[e]]
         ELSE builtFor
   /\ IF IsFailure(rc)
      THEN /\ log' = [log EXCEPT ![p] = LogError(@, popen[p].args, rc)]
           /\ Raise(p, CalledProcessError(rc, popen[p].args))
      ELSE /\ log' = [log EXCEPT ![p] =
                         Append(@, InfoRecord("Built environment %s", loc_env[p]))]
           /\ Goto(p, "write_marker")
   /\ UNCHANGED <<dirs, files, createCount, runs, manifest, extra, env_path,
                  loc_env, popen, calls>>

\* lines 78-79 and 83: the marker is written and the path recorded
WriteMarker(p) ==
   /\ pc[p] = "write_marker"
   /\ files' = WriteFile(MarkerPath(loc_env[p]), <<>>)
   /\ env_path' = [env_path EXCEPT ![p] = loc_env[p]]
   /\ Return(p, "build_environment")
   /\ UNCHANGED <<dirs, createCount, builtFor, runs, manifest, extra,
                  loc_env, retcode, popen, log, calls>>

\* lines 32, 89-91
WriteSnakefile(p) ==
   /\ pc[p] = "write_snakefile"
   /\ calls' = [calls EXCEPT ![p] = Append(@, "write_snakefile")]
   /\ files' = WriteFile(PathJoin(DataDir, <<"Snakefile">>), SnakefileBytes)
   /\ Return(p, "write_snakefile")
   /\ UNCHANGED <<dirs, createCount, builtFor, runs, manifest, extra, env_path,
                  loc_env, retcode, popen, log>>

\* lines 33, 100-115: the shell command is started in the data dir
RunPopen(p) ==
   /\ pc[p] = "run_popen"
   /\ calls' = [calls EXCEPT ![p] = Append(@, "run_snakefile")]
   /\ log' = [log EXCEPT ![p] = Append(@, InfoRecord("Running snakemake in %s", DataDir))]
   /\ popen' = [popen EXCEPT ![p] =
                   [args |-> RunCmd(env_path[p], DataDir, extra[p]),
                    cwd |-> DataDir, shell |-> TRUE]]
   /\ Goto(p, "run_wait")
   /\ UNCHANGED <<dirs, files, createCount, builtFor, runs, manifest, extra, env_path,
                  loc_env, retcode>>

\* lines 116-121: the shell exits with status rc
RunWait(p, rc) ==
   /\ pc[p] = "run_wait"
   /\ retcode' = [retcode EXCEPT ![p] = rc]
   /\ IF IsFailure(rc)
      THEN /\ log' = [log EXCEPT ![p] = LogError(@, popen[p].args, rc)]
           /\ Raise(p, CalledProcessError(rc, popen[p].args))
      ELSE /\ log' = log
           /\ Return(p, "run_snakefile")
   /\ UNCHANGED <<dirs, files, createCount, builtFor, runs, manifest, extra, env_path,
                  loc_env, popen, calls>>

\* an interrupt (Ctrl-C) ends the invocation wherever it is; nothing of the
\* process is left but what it did to the file system
Interrupt(p) ==
   /\ pc[p] \in Running
   /\ pc' = [pc EXCEPT ![p] = "killed"]
   /\ err' = [err EXCEPT ![p] = KeyboardInterrupt]
   /\ exit_status' = [exit_status EXCEPT ![p] = 1]
   /\ manifest' = [manifest EXCEPT ![p] = <<>>]
   /\ extra' = [extra EXCEPT ![p] = <<>>]
   /\ env_path' = [env_path EXCEPT ![p] = None]
   /\ loc_env' = [loc_env EXCEPT ![p] = None]
   /\ retcode' = [retcode EXCEPT ![p] = 0]
   /\ popen' = [popen EXCEPT ![p] = NoPopen]
   /\ log' = [log EXCEPT ![p] = <<>>]
   /\ calls' = [calls EXCEPT ![p] = <<>>]
   /\ UNCHANGED <<dirs, files, createCount, builtFor, runs>>

Next ==
   \/ \E p \in Procs, m \in Manifests, args \in ArgChoices : Start(p, m, args)
   \/ \E p \in Procs : BuilderInit(p)
   \/ \E p \in Procs : MakedirsData(p)
   \/ \E p \in Procs : WriteRequirements(p)
   \/ \E p \in Procs : CheckMarker(p)
   \/ \E p \in Procs : MakedirsEnv(p)
   \/ \E p \in Procs : CreatePopen(p)
   \/ \E p \in Procs, rc \in 0..MaxExit : CreateWait(p, rc)
   \/ \E p \in Procs : WriteMarker(p)
   \/ \E p \in Procs : WriteSnakefile(p)
   \/ \E p \in Procs : RunPopen(p)
   \/ \E p \in Procs, rc \in 0..MaxExit : RunWait(p, rc)
   \/ \E p \in Procs : Interrupt(p)

Spec == Init /\ [][Next]_vars

\* One invocation at a time, with every command line of at most MaxArgs tokens
NextArgs ==
   \/ \E m \in Manifests, args \in ArgLists(MaxArgs) : Start("p1", m, args)
   \/ BuilderInit("p1")
   \/ MakedirsData("p1")
   \/ WriteRequirements("p1")
   \/ CheckMarker("p1")
   \/ MakedirsEnv("p1")
   \/ CreatePopen("p1")
   \/ \E rc \in 0..MaxExit : CreateWait("p1", rc)
   \/ WriteMarker("p1")
   \/ WriteSnakefile("p1")
   \/ RunPopen("p1")
   \/ \E rc \in 0..MaxExit : RunWait("p1", rc)
   \/ Interrupt("p1")

SpecArgs == Init /\ [][NextArgs]_vars

----------------------------------------------------------------------------
(* Properties *)

AllEnvs == {EnvPath(DataDir, m) : m \in Manifests}

MainCalls == <<"Builder", "build_environment", "write_snakefile", "run_snakefile">>

IsPrefix(s, t) == Len(s) <= Len(t) /\ s = SubSeq(t, 1, Len(s))

HasRecord(p, msg) == \E k \in 1..Len(log[p]) : log[p][k].msg = msg

\* the invocation's conda create has exited with a non-zero status
CreateExitedNonZero(p) == popen[p].cwd = DataDir /\ ~popen[p].shell /\ retcode[p] # 0

\* the invocation has started the workflow runner
RunnerStarted(p) == popen[p].shell

\* the process takes a step of its own that is not its death by interrupt
Steps(p) == pc'[p] # pc[p] /\ pc'[p] # "killed"

\* C1: when build_environment reaches the marker test and the marker of its
\* environment is there (an earlier call with the same manifest bytes
\* succeeded), the call returns normally without starting conda create:
\* exactly one create was ever started for the environment, no error is
\* raised, and env_path is the path the earlier call recorded.
C1_SecondCallSkips ==
   [][\A p \in Procs :
         (pc[p] = "check_marker" /\ Steps(p) /\ MarkerPath(loc_env[p]) \in DOMAIN files)
            => /\ pc'[p] = "write_snakefile"
               /\ err'[p] = NoErr
               /\ createCount' = createCount
               /\ Count(loc_env[p]) = 1
               /\ env_path'[p] = PathJoin(DataDir, <<".conda-env", digests[manifest[p]]>>)
               /\ \A q \in Procs :
                     (env_path[q] # None /\ manifest[q] = manifest[p])
                        => env_path'[p] = env_path[q]]_vars

C1_Witness ==
   \E p, q \in Procs :
      /\ p # q
      /\ manifest[p] = manifest[q]
      /\ HasRecord(q, "Built environment %s")
      /\ HasRecord(p, "Using existing environment %s")
      /\ env_path[p] # None
      /\ env_path[p] = env_path[q]
      /\ Count(env_path[p]) = 1

\* C2: when conda create exits with a non-zero status c, the invocation ends
\* with CalledProcessError carrying c and the conda command line, the marker
\* is not written, env_path stays None, and the data dir and the environment
\* directory are still there.
C2_CreateFailure ==
   \A p \in Procs :
      CreateExitedNonZero(p)
         => /\ pc[p] = "failed"
            /\ err[p].kind = "CalledProcessError"
            /\ err[p].returncode = retcode[p]
            /\ err[p].cmd = <<"conda", "create", "-y", "--file", "requirements.txt",
                              "--prefix", ".conda-env/" \o digests[manifest[p]], "python=3">>
            /\ MarkerPath(loc_env[p]) \notin DOMAIN files
            /\ env_path[p] = None
            /\ DataDir \in dirs
            /\ PathJoin(DataDir, <<".conda-env", digests[manifest[p]]>>) \in dirs

C2_Witness ==
   \E p \in Procs :
      /\ CreateExitedNonZero(p)
      /\ retcode[p] = 2
      /\ err[p].returncode = 2
      /\ loc_env[p] \in dirs

\* C3: main() makes its four calls in order, and a non-zero exit of conda
\* create ends the invocation after build_environment: no Snakefile is
\* written by it, the runner is not started, conda create is not started again.
C3_LinearAndAbort ==
   \A p \in Procs :
      /\ IsPrefix(calls[p], MainCalls)
      /\ (pc[p] = "done" => calls[p] = MainCalls)
      /\ CreateExitedNonZero(p)
            => /\ calls[p] = <<"Builder", "build_environment">>
               /\ pc[p] = "failed"
               /\ ~RunnerStarted(p)
               /\ Count(loc_env[p]) = 1

C3_Witness ==
   \E p, q \in Procs :
      /\ pc[p] = "done"
      /\ calls[p] = MainCalls
      /\ CreateExitedNonZero(q)
      /\ pc[q] = "failed"
      /\ calls[q] = <<"Builder", "build_environment">>

LastRecord(p) == log[p][Len(log[p])]

\* the invocation's child process (conda create or the shell) exited non-zero
ChildExitedNonZero(p) == popen[p].cwd = DataDir /\ retcode[p] # 0

\* C4 as stated: a non-zero exit of conda create or of the runner ends the
\* invocation with a non-zero status, after a log record that holds both the
\* command and its exit code.
C4_LogsCommandAndCode ==
   \A p \in Procs :
      ChildExitedNonZero(p)
         => /\ pc[p] = "failed"
            /\ exit_status[p] # 0
            /\ \E k \in 1..Len(log[p]) :
                  /\ log[p][k].level = "ERROR"
                  /\ "cmd" \in DOMAIN log[p][k].args
                  /\ log[p][k].args.cmd = popen[p].args
                  /\ "returncode" \in DOMAIN log[p][k].args
                  /\ log[p][k].args.returncode = retcode[p]

\* C4 amended: a non-zero exit of conda create or of the runner ends the
\* invocation with a non-zero status; the last log record is an ERROR record
\* that holds the command and nothing else, and the exit code is carried by
\* the CalledProcessError that ends the invocation.
C4_LogsCommandOnly ==
   \A p \in Procs :
      ChildExitedNonZero(p)
         => /\ pc[p] = "failed"
            /\ exit_status[p] # 0
            /\ log[p] # <<>>
            /\ LastRecord(p).level = "ERROR"
            /\ DOMAIN LastRecord(p).args = {"cmd"}
            /\ LastRecord(p).args.cmd = popen[p].args
            /\ err[p].kind = "CalledProcessError"
            /\ err[p].returncode = retcode[p]
            /\ err[p].cmd = popen[p].args

C4_Witness ==
   \E p, q \in Procs :
      /\ ChildExitedNonZero(p) /\ RunnerStarted(p) /\ LastRecord(p).level = "ERROR"
      /\ ChildExitedNonZero(q) /\ ~RunnerStarted(q) /\ LastRecord(q).level = "ERROR"

\* the environment directory was left without a marker by an invocation that
\* is no longer building it
Orphan(e) ==
   /\ e \in dirs
   /\ MarkerPath(e) \notin DOMAIN files
   /\ \A q \in Procs :
         ~(pc[q] \in {"create_popen", "create_wait", "write_marker"} /\ loc_env[q] = e)

C6_DifferentManifestRebuilds ==
   \A p \in Procs :
      env_path[p] # None
         => /\ env_path[p] \in DOMAIN builtFor
            /\ builtFor[env_path[p]] = manifest[p]

\* C6 amended: manifests whose md5 differ in the first six hex digits have
\* different environment directories, and an invocation only uses an
\* environment built for a manifest with the same six digits as its own.
C6_DifferentPrefixRebuilds ==
   /\ \A m1, m2 \in Manifests :
         digests[m1] # digests[m2] => EnvPath(DataDir, m1) # EnvPath(DataDir, m2)
   /\ \A p \in Procs :
         env_path[p] # None
            => /\ env_path[p] \in DOMAIN builtFor
               /\ digests[builtFor[env_path[p]]] = digests[manifest[p]]

C6_Witness ==
   \E p, q \in Procs :
      /\ env_path[p] # None
      /\ env_path[q] # None
      /\ env_path[p] # env_path[q]
      /\ manifest[p] = M0
      /\ manifest[q] = M1
      /\ HasRecord(p, "Built environment %s")
      /\ HasRecord(q, "Built environment %s")

\* C7 is checked under SpecArgs.
\* position of token k of the suffix: one past the tokens and spaces before it
RECURSIVE Offset(_, _)
Offset(tokens, k) ==
   IF k = 1 THEN 1 ELSE Offset(tokens, k - 1) + Len(tokens[k - 1]) + 1

SuffixLen(tokens) ==
   IF tokens = <<>> THEN 0
   ELSE Offset(tokens, Len(tokens)) + Len(tokens[Len(tokens)]) - 1

\* C7: the runner is started with the data dir as working directory and the
\* shell command 'source activate .conda-env/<6 hex digits>; snakemake '
\* followed by the tokens in their order, each unchanged, with exactly one
\* space between neighbours and nothing else; ["-n", "-j4"] gives '-n -j4'.
C7_RunCommand ==
   \A p \in Procs :
      RunnerStarted(p)
         => LET cmd    == popen[p].args
                head   == "source activate .conda-env/" \o digests[manifest[p]]
                             \o "; snakemake "
                suffix == SubSeq(cmd, Len(head) + 1, Len(cmd))
                tokens == extra[p]
            IN  /\ popen[p].cwd = DataDir
                /\ Len(cmd) = Len(head) + SuffixLen(tokens)
                /\ SubSeq(cmd, 1, Len(head)) = head
                /\ \A k \in 1..Len(tokens) :
                      SubSeq(suffix, Offset(tokens, k),
                             Offset(tokens, k) + Len(tokens[k]) - 1) = tokens[k]
                /\ \A k \in 1..(Len(tokens) - 1) :
                      SubSeq(suffix, Offset(tokens, k + 1) - 1,
                             Offset(tokens, k + 1) - 1) = " "
                /\ (tokens = <<"-n", "-j4">> => suffix = "-n -j4")

C7_Witness ==
   \E p \in Procs :
      /\ RunnerStarted(p)
      /\ extra[p] = <<"-n", "-j4">>
      /\ popen[p].args = "source activate .conda-env/bdf917; snakemake -n -j4"

\* C8: the existence test and the makedirs are separate steps with nothing
\* between them: an invocation that saw no data dir (or no marker
\* in the environment directory) and finds the directory there when it calls
\* makedirs ends with FileExistsError.
C8_RaceOnMakedirs ==
   [][\A p \in Procs :
         /\ (pc[p] = "makedirs_data" /\ DataDir \in dirs /\ Steps(p))
               => (pc'[p] = "failed" /\ err'[p] = FileExistsError)
         /\ (pc[p] = "makedirs_env" /\ loc_env[p] \in dirs /\ Steps(p))
               => (pc'[p] = "failed" /\ err'[p] = FileExistsError)]_vars

\* both invocations saw the data dir absent; one created it, the other failed
C8_Witness ==
   \E p, q \in Procs :
      /\ p # q
      /\ HasRecord(p, "Creating %s")
      /\ HasRecord(q, "Creating %s")
      /\ pc[p] = "failed"
      /\ err[p] = FileExistsError
      /\ calls[p] = <<"Builder">>
      /\ pc[q] \in Running \ {"init", "makedirs_data"}

\* C9: the runner is started only by an invocation whose build_environment
\* returned (env_path is set), and then the marker is in the directory that
\* env_path names; and a marker is only in a directory for which a conda
\* create exited with 0.
C9_RunnerOnlyOnBuiltEnv ==
   /\ \A p \in Procs :
         RunnerStarted(p)
            => /\ env_path[p] # None
               /\ IsPrefix(<<"Builder", "build_environment">>, calls[p])
               /\ MarkerPath(env_path[p]) \in DOMAIN files
   /\ \A e \in AllEnvs : MarkerPath(e) \in DOMAIN files => e \in DOMAIN builtFor

C9_Witness ==
   \E p, q \in Procs :
      /\ pc[p] = "run_wait"
      /\ RunnerStarted(p)
      /\ CreateExitedNonZero(q)
      /\ loc_env[q] # env_path[p]

\* C10: conda create is started at most once for an environment directory,
\* and at most one invocation is ever between the makedirs of the directory
\* and the writing of its marker.
C10_CreateAtMostOnce ==
   /\ \A e \in DOMAIN createCount : createCount[e] <= 1
   /\ \A p, q \in Procs :
         (/\ pc[p] \in {"create_popen", "create_wait", "write_marker"}
          /\ pc[q] \in {"create_popen", "create_wait", "write_marker"}
          /\ loc_env[p] = loc_env[q])
            => p = q

\* one invocation is building the directory, the other was turned away
C10_Witness ==
   \E p, q \in Procs :
      /\ pc[p] = "create_wait"
      /\ pc[q] = "failed"
      /\ err[q] = FileExistsError
      /\ loc_env[q] = loc_env[p]
      /\ Count(loc_env[p]) = 1

====
